---- MODULE Spec2Model ----
(***************************************************************************)
(* Model of scripts/data_generator.py: the Barabasi-Albert stub builder    *)
(* (fast_ba_prealloc), the canonicalizer and the chunked writer            *)
(* (generate_and_save).  Python arrays are 0-based; a sequence cell k+1    *)
(* holds array index k.                                                    *)
(* SpecManager models retry_cmd and copy_to_containers of                  *)
(* scripts/dataset_manager.py.                                             *)
(***************************************************************************)
EXTENDS Integers, Sequences, FiniteSets, TLC

(* ------------------------------ bounds --------------------------------- *)
MaxN == 4
MaxAvg == 4
MaxChunk == 2
MaxSpin == 2
MaxStubs == 3
MaxId == 2
BufferRows == 2

MaxRetries == 3
MaxBackoff == 2

(* ------------------------- program constants --------------------------- *)
ReservoirSlack == 100
ResizePad == 10
DOCKER_RETRIES == 4
DOCKER_BACKOFF == 2

VARIABLES
  pc,              \* position in main / generate_and_save / fast_ba_prealloc
  n, avg_friends, chunk_size, external_sort,   \* arguments
  m,
  est_edges, edges_u, edges_v, e_ptr,          \* stub arrays
  deg,
  i, j,                                        \* clique loop
  reservoir_size, reservoir, r_ptr, node,      \* degree reservoir
  new_node, targets, branch,                   \* growth loop
  pairs, unique_pairs, num_pairs,              \* canonicalizer
  users_csv, friendships_csv, metadata_json,   \* files of generated/<name>
  chunk_st,
  error,                                       \* exception that ended the run
  grow_iters,                                  \* growth iterations executed
  prior,                                       \* what an earlier run left
  base_dir, out_dir,                           \* generated/ and generated/<name>
  lines,                                       \* rows built for the current chunk
  flushed,                                     \* rows of out_f that left its buffer
  chunk_iters,                                 \* iterations of the chunk loop
  ages, cities, dates,                         \* attribute columns being drawn
  dry_run, files_found,                        \* dataset_manager: the manager
  entry, commands, step, executed, copy_result,  \* copy_to_containers
  retries, backoff, attempt, runs, slept, retry_result   \* retry_cmd

vars == <<pc, n, avg_friends, chunk_size, external_sort, m, est_edges, edges_u,
          edges_v, e_ptr, deg, i, j, reservoir_size, reservoir, r_ptr, node,
          new_node, targets, branch, pairs, unique_pairs, num_pairs, users_csv,
          friendships_csv, metadata_json, chunk_st, error, grow_iters, prior,
          base_dir, out_dir, lines, flushed, chunk_iters, ages, cities, dates,
          dry_run, files_found, entry, commands, step, executed, copy_result,
          retries, backoff, attempt, runs, slept, retry_result>>

(* ------------------------------ helpers -------------------------------- *)
Max(a, b) == IF a >= b THEN a ELSE b
Min(a, b) == IF a <= b THEN a ELSE b

\* a cell of np.empty that was never written; no reachable step reads one
Uninit == -1

\* m = max(1, avg_friends // 2)
MNoHalving(avg) == Max(1, avg)
M(avg) == Max(1, avg \div 2)

\* the guard of fast_ba_prealloc
TooFewStrict(nn, mm) == nn < mm
TooFew(nn, mm) == nn <= mm

InitNodesShort(mm) == mm
InitNodes(mm) == mm + 1

InitEdges(mm) == (InitNodes(mm) * (InitNodes(mm) - 1)) \div 2

\* int(m * (n - (m + 1) / 2)): m*(2n-m-1) is even, so the float product is
\* the integer m*(2n-m-1)/2, which int() leaves as it is.
EstEdgesCliqueOnly(nn, mm) == InitEdges(mm)
EstEdges(nn, mm) == Max((mm * (2 * nn - (mm + 1))) \div 2, InitEdges(mm))

ReservoirSizeTight(nn, mm) == EstEdges(nn, mm)
ReservoirSizeNoSlack(nn, mm) == nn * mm
ReservoirSize(nn, mm) == 2 * EstEdges(nn, mm) + nn * mm + ReservoirSlack

\* np.empty(size)
Empty(size) == [k \in 1..size |-> Uninit]

\* a[st:en] = val for a scalar val: numpy clips the slice to the array
FillSlice(a, st, en, val) ==
  [k \in 1..Len(a) |-> IF k - 1 >= st /\ k - 1 < en THEN val ELSE a[k]]

\* a[st:st+len(vals)] = vals, the slice lying inside the array
WriteSlice(a, st, vals) ==
  [k \in 1..Len(a) |->
     IF k - 1 >= st /\ k - 1 < st + Len(vals) THEN vals[k - st] ELSE a[k]]

\* a[:en] for 0 <= en
Prefix(a, en) == SubSeq(a, 1, Min(en, Len(a)))

\* the (i, j) visited after (ii, jj) by
\*   for i in range(init_nodes): for j in range(i + 1, init_nodes)
\* <<N, N>> once the loops are over
FirstPair(N) == IF 1 < N THEN <<0, 1>> ELSE <<N, N>>
NextPairRowOnly(ii, jj, N) == IF jj + 1 < N THEN <<ii, jj + 1>> ELSE <<N, N>>
NextPair(ii, jj, N) ==
  IF jj + 1 < N THEN <<ii, jj + 1>>
  ELSE IF ii + 2 < N THEN <<ii + 1, ii + 2>>
  ELSE <<N, N>>

\* for t in targets: deg[t] += 1   (deg[-1] is the last cell in Python)
BumpDegOnce(d, ts) ==
  [k \in 1..Len(d) |->
     IF \E x \in 1..Len(ts) : ts[x] = k - 1 THEN d[k] + 1 ELSE d[k]]
RECURSIVE BumpDeg(_, _)
BumpDeg(d, ts) ==
  IF ts = <<>> THEN d
  ELSE LET t == IF Head(ts) < 0 THEN Head(ts) + Len(d) ELSE Head(ts)
       IN BumpDeg([d EXCEPT ![t + 1] = @ + 1], Tail(ts))

\* positions rng.choice may read: reservoir[:r_ptr]
ChoicePoolWide(rp) == 1..(rp + 1)
ChoicePool(rp) == 1..rp

\* rng.choice(reservoir[:r_ptr], size=m, replace=False): m distinct positions
\* of the pool, in the order drawn; replace=True: any m positions
Draws(rp, mm, replace) ==
  {f \in [1..mm -> ChoicePool(rp)] :
     replace \/ \A a, b \in 1..mm : a # b => f[a] # f[b]}

NoRun == [ran |-> FALSE, stubs |-> <<>>, rows |-> <<>>]
NoFile == [exists |-> FALSE, header |-> FALSE, rows |-> <<>>]
NoMetadata == [exists |-> FALSE, complete |-> FALSE, writes |-> 0,
               num_users |-> 0, num_friendships |-> 0, avg_degree |-> <<0, 1>>]

(* ------------------------------- Init ---------------------------------- *)
\* the attribute columns before they are drawn
NoAttrs == ages = <<>> /\ cities = <<>> /\ dates = <<>>

\* no AdaptiveTestingManager is at work
NoManager ==
  /\ dry_run = FALSE /\ files_found = FALSE
  /\ entry = "none" /\ commands = <<>> /\ step = 0 /\ executed = <<>>
  /\ copy_result = "none"
  /\ retries = 0 /\ backoff = 0 /\ attempt = 0 /\ runs = 0 /\ slept = <<>>
  /\ retry_result = "none"

Init ==
  /\ pc = "start"
  /\ n \in 0..MaxN
  /\ avg_friends \in 1..MaxAvg
  /\ chunk_size \in (-1)..MaxChunk
  /\ external_sort \in BOOLEAN
  /\ m = 0
  /\ est_edges = 0 /\ edges_u = <<>> /\ edges_v = <<>> /\ e_ptr = 0
  /\ deg = <<>>
  /\ i = 0 /\ j = 0
  /\ reservoir_size = 0 /\ reservoir = <<>> /\ r_ptr = 0 /\ node = 0
  /\ new_node = 0 /\ targets = <<>> /\ branch = "none"
  /\ pairs = <<>> /\ unique_pairs = <<>> /\ num_pairs = 0
  /\ users_csv = NoFile /\ friendships_csv = NoFile
  /\ metadata_json = NoMetadata
  /\ chunk_st = 0
  /\ error = "none"
  /\ grow_iters = 0
  /\ prior = NoRun
  /\ base_dir = "writable" /\ out_dir = "absent"
  /\ lines = <<>> /\ flushed = 0 /\ chunk_iters = 0
  /\ NoAttrs
  /\ NoManager

Files == <<users_csv, friendships_csv, metadata_json>>
Canon == <<pairs, unique_pairs, num_pairs, chunk_st>>
Args == <<n, avg_friends, chunk_size, external_sort>>
StubArrays == <<est_edges, edges_u, edges_v, e_ptr>>
Reservoir == <<reservoir_size, reservoir, r_ptr, node>>
Dirs == <<base_dir, out_dir>>
Writer == <<lines, flushed, chunk_iters>>
Attrs == <<ages, cities, dates>>
Manager == <<dry_run, files_found, entry, commands, step, executed, copy_result,
             retries, backoff, attempt, runs, slept, retry_result>>

(* ------------------------ fast_ba_prealloc ----------------------------- *)
\* generate_and_save computes m and calls fast_ba_prealloc, which raises
\* ValueError for n <= m and otherwise allocates the stub arrays and deg
Prealloc ==
  /\ pc = "start"
  /\ m' = M(avg_friends)
  /\ IF TooFew(n, m')
     THEN /\ pc' = "failed"
          /\ error' = "ValueError"
          /\ UNCHANGED <<StubArrays, deg, i, j>>
     ELSE /\ est_edges' = EstEdges(n, m')
          /\ edges_u' = Empty(est_edges')
          /\ edges_v' = Empty(est_edges')
          /\ e_ptr' = 0
          /\ deg' = [k \in 1..n |-> 0]
          /\ i' = FirstPair(InitNodes(m'))[1]
          /\ j' = FirstPair(InitNodes(m'))[2]
          /\ pc' = "clique"
          /\ error' = error
  /\ UNCHANGED <<Args, Reservoir, new_node, targets, branch, Canon, Files,
                 grow_iters, prior, Attrs, Manager, Dirs, Writer>>

\* one iteration of the inner loop of the initial complete graph
CliqueEdge ==
  /\ pc = "clique"
  /\ i < InitNodes(m)
  /\ edges_u' = [edges_u EXCEPT ![e_ptr + 1] = i]
  /\ edges_v' = [edges_v EXCEPT ![e_ptr + 1] = j]
  /\ e_ptr' = e_ptr + 1
  /\ deg' = [deg EXCEPT ![i + 1] = @ + 1, ![j + 1] = @ + 1]
  /\ i' = NextPair(i, j, InitNodes(m))[1]
  /\ j' = NextPair(i, j, InitNodes(m))[2]
  /\ UNCHANGED <<pc, Args, m, est_edges, Reservoir, new_node, targets, branch,
                 Canon, Files, error, grow_iters, prior, Attrs, Manager, Dirs, Writer>>

\* the clique loops are over: allocate the reservoir
AllocReservoir ==
  /\ pc = "clique"
  /\ i >= InitNodes(m)
  /\ reservoir_size' = ReservoirSize(n, m)
  /\ reservoir' = Empty(reservoir_size')
  /\ r_ptr' = 0
  /\ node' = 0
  /\ pc' = "seed"
  /\ UNCHANGED <<Args, m, StubArrays, deg, i, j, new_node, targets, branch,
                 Canon, Files, error, grow_iters, prior, Attrs, Manager, Dirs, Writer>>

\* one iteration of: for node in range(init_nodes)
SeedReservoir ==
  /\ pc = "seed"
  /\ node < InitNodes(m)
  /\ LET d == deg[node + 1]
     IN IF d > 0
        THEN /\ reservoir' = FillSlice(reservoir, r_ptr, r_ptr + d, node)
             /\ r_ptr' = r_ptr + d
        ELSE UNCHANGED <<reservoir, r_ptr>>
  /\ node' = node + 1
  /\ UNCHANGED <<pc, Args, m, StubArrays, deg, i, j, reservoir_size, new_node,
                 targets, branch, Canon, Files, error, grow_iters, prior, Attrs, Manager, Dirs, Writer>>

\* seeding is over: rng = default_rng(), enter the growth loop
StartGrowth ==
  /\ pc = "seed"
  /\ node >= InitNodes(m)
  /\ new_node' = InitNodes(m)
  /\ pc' = "grow"
  /\ UNCHANGED <<Args, m, StubArrays, deg, i, j, Reservoir, targets, branch,
                 Canon, Files, error, grow_iters, prior, Attrs, Manager, Dirs, Writer>>

\* a draw that takes the drawn entries out of the reservoir
SampleTargetsPop ==
  /\ pc = "grow"
  /\ new_node < n
  /\ r_ptr >= m
  /\ branch' = "noreplace"
  /\ \E f \in Draws(r_ptr, m, FALSE) :
       targets' = [k \in 1..m |-> reservoir[f[k]]]
  /\ r_ptr' = r_ptr - m
  /\ pc' = "attach"
  /\ UNCHANGED <<Args, m, StubArrays, deg, i, j, reservoir_size, reservoir,
                 node, new_node, Canon, Files, error, grow_iters, prior, Attrs, Manager, Dirs,
                 Writer>>

\* head of a growth iteration: draw the m targets of new_node.
\* rng.choice raises ValueError on an empty pool.
SampleTargets ==
  /\ pc = "grow"
  /\ new_node < n
  /\ IF r_ptr = 0
     THEN /\ pc' = "failed"
          /\ error' = "ValueError"
          /\ UNCHANGED <<targets, branch>>
     ELSE /\ branch' = IF r_ptr >= m THEN "noreplace" ELSE "replace"
          /\ \E f \in Draws(r_ptr, m, r_ptr < m) :
               targets' = [k \in 1..m |-> reservoir[f[k]]]
          /\ pc' = "attach"
          /\ error' = error
  /\ UNCHANGED <<Args, m, StubArrays, deg, i, j, Reservoir, new_node, Canon,
                 Files, grow_iters, prior, Attrs, Manager, Dirs, Writer>>

\* rest of the growth iteration: record the stubs, update deg, grow the
\* reservoir when it would overflow, append new_node and the targets
Attach ==
  /\ pc = "attach"
  /\ IF e_ptr + m > est_edges /\ m # 1
     THEN \* edges_v[e_ptr:e_ptr+m] = targets cannot broadcast into a clipped slice
          /\ pc' = "failed"
          /\ error' = "ValueError"
          /\ edges_u' = FillSlice(edges_u, e_ptr, e_ptr + m, new_node)
          /\ UNCHANGED <<edges_v, e_ptr, deg, reservoir_size, reservoir, r_ptr,
                         new_node, grow_iters>>
     ELSE /\ edges_u' = FillSlice(edges_u, e_ptr, e_ptr + m, new_node)
          /\ edges_v' = IF e_ptr + m > est_edges
                        THEN FillSlice(edges_v, e_ptr, e_ptr + m, targets[1])
                        ELSE WriteSlice(edges_v, e_ptr, targets)
          /\ e_ptr' = e_ptr + m
          /\ deg' = BumpDeg([deg EXCEPT ![new_node + 1] = m], targets)
          /\ LET grown == r_ptr + 2 * m > reservoir_size
                 size == IF grown THEN reservoir_size * 2 + m * ResizePad
                                  ELSE reservoir_size
                 \* np.resize repeats the old array to fill the new one
                 base == IF grown
                         THEN [k \in 1..size |->
                                 reservoir[((k - 1) % reservoir_size) + 1]]
                         ELSE reservoir
             IN /\ reservoir_size' = size
                /\ reservoir' = WriteSlice(
                                  FillSlice(base, r_ptr, r_ptr + m, new_node),
                                  r_ptr + m, targets)
          /\ r_ptr' = r_ptr + 2 * m
          /\ new_node' = new_node + 1
          /\ grow_iters' = grow_iters + 1
          /\ pc' = "grow"
          /\ error' = error
  /\ UNCHANGED <<Args, m, est_edges, i, j, node, targets, branch, Canon, Files,
                 prior, Attrs, Manager, Dirs, Writer>>

\* the growth loop is over: return edges_u[:e_ptr], edges_v[:e_ptr]
ReturnStubs ==
  /\ pc = "grow"
  /\ new_node >= n
  /\ edges_u' = Prefix(edges_u, e_ptr)
  /\ edges_v' = Prefix(edges_v, e_ptr)
  /\ pc' = "canon"
  /\ UNCHANGED <<Args, m, est_edges, e_ptr, deg, i, j, Reservoir, new_node,
                 targets, branch, Canon, Files, error, grow_iters, prior, Attrs, Manager, Dirs, Writer>>

(* --------------------------- canonicalizer ----------------------------- *)
\* np.minimum / np.maximum, elementwise
Minimum(a, b) == [k \in 1..Len(a) |-> Min(a[k], b[k])]
Maximum(a, b) == [k \in 1..Len(a) |-> Max(a[k], b[k])]

\* pairs = np.vstack((u[mask], v[mask])).T with mask = u != v
RECURSIVE Masked(_, _)
Masked(u, v) ==
  IF u = <<>> THEN <<>>
  ELSE (IF Head(u) # Head(v) THEN <<(<<Head(u), Head(v)>>)>> ELSE <<>>)
       \o Masked(Tail(u), Tail(v))

\* the key order of np.lexsort((pairs[:,1], pairs[:,0])): column 0, then 1
LexLeq(p, q) == p[1] < q[1] \/ (p[1] = q[1] /\ p[2] <= q[2])

\* pairs[order] for the stable sort order: a row goes after the rows that
\* do not exceed it
RECURSIVE Insert(_, _)
Insert(sorted, p) ==
  IF sorted = <<>> THEN <<p>>
  ELSE IF LexLeq(Head(sorted), p) THEN <<Head(sorted)>> \o Insert(Tail(sorted), p)
  ELSE <<p>> \o sorted

RECURSIVE SortFrom(_, _)
SortFrom(sorted, rest) ==
  IF rest = <<>> THEN sorted ELSE SortFrom(Insert(sorted, Head(rest)), Tail(rest))

LexSortNone(ps) == ps
LexSort(ps) == SortFrom(<<>>, ps)

\* np.any(pairs[1:] != pairs[:-1], axis=1) for one adjacent couple of rows
RowsDifferAll(p, q) == p[1] # q[1] /\ p[2] # q[2]
RowsDifferLow(p, q) == p[1] # q[1]
RowsDiffer(p, q) == p[1] # q[1] \/ p[2] # q[2]

\* keep = [True] + diffs ; unique_pairs = pairs[keep]
RECURSIVE KeepFrom(_, _)
KeepFrom(ps, k) ==
  IF k > Len(ps) THEN <<>>
  ELSE (IF k = 1 \/ RowsDiffer(ps[k], ps[k - 1]) THEN <<ps[k]>> ELSE <<>>)
       \o KeepFrom(ps, k + 1)

UniqueRowsKeepAll(ps) == ps
UniqueRowsFirstOnly(ps) == IF Len(ps) = 0 THEN ps ELSE <<ps[1]>>
UniqueRows(ps) == IF Len(ps) = 0 THEN ps ELSE KeepFrom(ps, 1)

\* u = np.minimum(a, b); v = np.maximum(a, b); mask; pairs
CanonicalPairsRaw(a, b) == Masked(a, b)
CanonicalPairs(a, b) == Masked(Minimum(a, b), Maximum(a, b))

\* lines 138-147: canonical form and self-loop mask
CanonicalForm ==
  /\ pc = "canon"
  /\ pairs' = CanonicalPairs(edges_u, edges_v)
  /\ pc' = "dedup"
  /\ UNCHANGED <<Args, m, StubArrays, deg, i, j, Reservoir, new_node, targets,
                 branch, unique_pairs, num_pairs, chunk_st, Files, error,
                 grow_iters, prior, Attrs, Manager, Dirs, Writer>>

\* external_sort=True
ExternalSort ==
  /\ pc = "dedup"
  /\ external_sort
  /\ pc' = "failed"
  /\ error' = "NotImplementedError"
  /\ UNCHANGED <<Args, m, StubArrays, deg, i, j, Reservoir, new_node, targets,
                 branch, Canon, Files, grow_iters, prior, Attrs, Manager, Dirs, Writer>>

\* lexsort + unique, num_pairs
SortUnique ==
  /\ pc = "dedup"
  /\ ~external_sort
  /\ unique_pairs' = UniqueRows(LexSort(pairs))
  /\ num_pairs' = Len(unique_pairs')
  /\ pairs' = LexSort(pairs)
  /\ pc' = "users"
  /\ UNCHANGED <<Args, m, StubArrays, deg, i, j, Reservoir, new_node, targets,
                 branch, chunk_st, Files, error, grow_iters, prior, Attrs, Manager, Dirs, Writer>>

(* ------------------------------ dates ---------------------------------- *)
Digits == <<"0", "1", "2", "3", "4", "5", "6", "7", "8", "9">>

\* astype(str) of a non-negative integer
RECURSIVE Str(_)
Str(k) == IF k < 10 THEN <<Digits[k + 1]>>
          ELSE Str(k \div 10) \o <<Digits[(k % 10) + 1]>>

\* np.char.zfill(s, width)
RECURSIVE ZFill(_, _)
ZFill(s, width) == IF Len(s) >= width THEN s ELSE ZFill(<<"0">> \o s, width)

\* rng.integers(low, high): low <= x < high
IntegersInclusive(low, high) == low..high
Integers_(low, high) == low..(high - 1)

Years == Integers_(0, 4)
Months == Integers_(1, 13)
Days == Integers_(1, 28)

\* "202" + years + "-" + months + "-" + days
FormatDate(y, mo, d) ==
  <<"2", "0", "2">> \o Str(y) \o <<"-">> \o ZFill(Str(mo), 2) \o <<"-">>
    \o ZFill(Str(d), 2)

\* the draws explored per row: the two corners of Years \X Months \X Days
DateDraws ==
  {t \in Years \X Months \X Days :
     \/ t = <<0, 1, 1>>
     \/ t = <<3, 12, 27>>}

(* ------------------------------ writer --------------------------------- *)
\* a[st:en] of Python: negative indices count from the end, both are clipped
PyIndex(k, len) == IF k < 0 THEN Max(k + len, 0) ELSE Min(k, len)
PySliceInclusive(a, st, en) ==
  SubSeq(a, PyIndex(st, Len(a)) + 1, Min(PyIndex(en, Len(a)) + 1, Len(a)))
PySlice(a, st, en) == SubSeq(a, PyIndex(st, Len(a)) + 1, PyIndex(en, Len(a)))

\* ids = np.arange(n)
ArangeFromOne(nn) == [k \in 1..nn |-> k]
Arange(nn) == [k \in 1..nn |-> k - 1]

\* users_df as it is written by to_csv (user_id and name; the decorative
\* columns age, city and registration_date do not reach any other state)
UsersRows(nn) ==
  [k \in 1..nn |-> [user_id |-> Arange(nn)[k],
                    name |-> <<"User_">> \o Str(Arange(nn)[k])]]

\* float(2 * num_pairs / n), kept as numerator and denominator
AvgDegreeNoFactor(np, nn) == <<np, nn>>
AvgDegree(np, nn) == <<2 * np, nn>>

\* users_df, os.makedirs(out_dir, exist_ok=True), users_df.to_csv
WriteUsers ==
  /\ pc = "users"
  /\ \/ out_dir = "writable"
     \/ out_dir = "absent" /\ base_dir = "writable"
  /\ out_dir' = "writable"
  /\ users_csv' = [exists |-> TRUE, header |-> TRUE, rows |-> UsersRows(n)]
  /\ pc' = "open"
  /\ UNCHANGED <<Args, m, StubArrays, deg, i, j, Reservoir, new_node, targets,
                 branch, Canon, friendships_csv, metadata_json, error,
                 grow_iters, prior, Attrs, Manager, base_dir, Writer>>

\* os.makedirs or to_csv raises OSError (no permission, disk full): users.csv
\* is not created, or is left with the rows that got out
WriteUsersFails ==
  /\ pc = "users"
  /\ IF out_dir = "readonly" \/ (out_dir = "absent" /\ base_dir # "writable")
     THEN UNCHANGED <<users_csv, out_dir>>
     ELSE /\ out_dir' = "writable"
          /\ \/ UNCHANGED users_csv
             \/ \E k \in 0..n :
                  users_csv' = [exists |-> TRUE, header |-> k > 0,
                                rows |-> SubSeq(UsersRows(n), 1, k)]
  /\ pc' = "failed"
  /\ error' = "OSError"
  /\ UNCHANGED <<Args, m, StubArrays, deg, i, j, Reservoir, new_node, targets,
                 branch, Canon, friendships_csv, metadata_json, grow_iters,
                 prior, Attrs, Manager, base_dir, Writer>>

\* open(friendships_path, "w") and the header line, which goes to the
\* buffer of out_f
OpenFriendships ==
  /\ pc = "open"
  /\ friendships_csv' = [exists |-> TRUE, header |-> TRUE, rows |-> <<>>]
  /\ chunk_st' = 0
  /\ flushed' = 0
  /\ chunk_iters' = 0
  /\ pc' = "chunks"
  /\ UNCHANGED <<Args, m, StubArrays, deg, i, j, Reservoir, new_node, targets,
                 branch, pairs, unique_pairs, num_pairs, users_csv,
                 metadata_json, error, grow_iters, prior, Attrs, Manager, Dirs, lines>>

\* open(friendships_path, "w") raises OSError
OpenFriendshipsFails ==
  /\ pc = "open"
  /\ pc' = "failed"
  /\ error' = "OSError"
  /\ UNCHANGED <<Args, m, StubArrays, deg, i, j, Reservoir, new_node, targets,
                 branch, Canon, Files, grow_iters, prior, Attrs, Manager, Dirs, Writer>>

\* the rows of one chunk: f"{u0},{v0},{since}\n" for each row of the chunk
ChunkLines(chunk, ds) ==
  [x \in 1..Len(chunk) |->
     [user_id |-> chunk[x][1], friend_id |-> chunk[x][2],
      since |-> FormatDate(ds[x][1], ds[x][2], ds[x][3])]]

\* open() without a buffering argument gives a buffered file of a fixed
\* capacity, here BufferRows rows.  The rows out_f keeps back after k more
\* are written to one that holds `pending`: they are all kept while they
\* fit; otherwise the buffer is emptied first, and rows that exceed it
\* alone go straight through
Buffered(pending, k) ==
  IF pending + k <= BufferRows THEN pending + k
  ELSE IF k <= BufferRows THEN k
  ELSE 0

\* one iteration of: while chunk_st < num_pairs.  writelines hands the rows
\* to out_f; nothing calls flush
WriteChunk ==
  /\ pc = "chunks"
  /\ chunk_st < num_pairs
  /\ chunk_iters < num_pairs + MaxSpin
  /\ LET chunk_en == Min(chunk_st + chunk_size, num_pairs)
         chunk == PySlice(unique_pairs, chunk_st, chunk_en)
         k == Len(chunk)
     IN /\ \E ds \in [1..k -> DateDraws] : lines' = ChunkLines(chunk, ds)
        /\ friendships_csv' = [friendships_csv EXCEPT !.rows = @ \o lines']
        /\ flushed' = Len(friendships_csv.rows) + k
                        - Buffered(Len(friendships_csv.rows) - flushed, k)
        /\ chunk_st' = chunk_en
        /\ chunk_iters' = chunk_iters + 1
  /\ UNCHANGED <<pc, Args, m, StubArrays, deg, i, j, Reservoir, new_node,
                 targets, branch, pairs, unique_pairs, num_pairs, users_csv,
                 metadata_json, error, grow_iters, prior, Attrs, Manager, Dirs>>

\* writelines raises OSError: the rows of the chunk were built, any number
\* of them reached out_f, and leaving the with block closes the file
WriteChunkFails ==
  /\ pc = "chunks"
  /\ chunk_st < num_pairs
  /\ chunk_iters < num_pairs + MaxSpin
  /\ LET chunk_en == Min(chunk_st + chunk_size, num_pairs)
         chunk == PySlice(unique_pairs, chunk_st, chunk_en)
         k == Len(chunk)
     IN /\ \E ds \in [1..k -> DateDraws] : lines' = ChunkLines(chunk, ds)
        /\ \E w \in 0..k :
             friendships_csv' =
               [friendships_csv EXCEPT !.rows = @ \o SubSeq(lines', 1, w)]
        /\ flushed' = Len(friendships_csv'.rows)
        /\ chunk_iters' = chunk_iters + 1
  /\ pc' = "failed"
  /\ error' = "OSError"
  /\ UNCHANGED <<Args, m, StubArrays, deg, i, j, Reservoir, new_node,
                 targets, branch, Canon, users_csv, metadata_json, grow_iters,
                 prior, Attrs, Manager, Dirs>>

\* the loop is over: leaving the with block closes the file, which flushes
CloseFriendships ==
  /\ pc = "chunks"
  /\ chunk_st >= num_pairs
  /\ flushed' = Len(friendships_csv.rows)
  /\ pc' = "meta"
  /\ UNCHANGED <<Args, m, StubArrays, deg, i, j, Reservoir, new_node, targets,
                 branch, Canon, Files, error, grow_iters, prior, Attrs, Manager,
                 Dirs, lines, chunk_iters>>

\* metadata.json
WriteMetadata ==
  /\ pc = "meta"
  /\ metadata_json' = [exists |-> TRUE, complete |-> TRUE,
                       writes |-> metadata_json.writes + 1,
                       num_users |-> n, num_friendships |-> num_pairs,
                       avg_degree |-> AvgDegree(num_pairs, n)]
  /\ pc' = "done"
  /\ UNCHANGED <<Args, m, StubArrays, deg, i, j, Reservoir, new_node, targets,
                 branch, Canon, users_csv, friendships_csv, error, grow_iters,
                 prior, Attrs, Manager, Dirs, Writer>>

\* open(metadata_path, "w") or json.dump raises OSError: metadata.json is
\* not created, or is left cut short
WriteMetadataFails ==
  /\ pc = "meta"
  /\ \/ UNCHANGED metadata_json
     \/ metadata_json' = [metadata_json EXCEPT !.exists = TRUE,
                                               !.complete = FALSE,
                                               !.writes = @ + 1]
  /\ pc' = "failed"
  /\ error' = "OSError"
  /\ UNCHANGED <<Args, m, StubArrays, deg, i, j, Reservoir, new_node, targets,
                 branch, Canon, users_csv, friendships_csv, grow_iters,
                 prior, Attrs, Manager, Dirs, Writer>>

\* main: ensure_writable("generated"), then generate_and_save.  The probe
\* writes generated/.write_test; when that fails it tries chmod 0o777 (which
\* may itself fail, silently) and probes once more
EnsureWritable ==
  /\ pc = "main"
  /\ \/ /\ base_dir \in {"absent", "writable"}
        /\ base_dir' = "writable"
        /\ pc' = "start"
        /\ error' = error
     \/ /\ base_dir = "readonly"
        /\ \E chmod_ok \in BOOLEAN :
             IF chmod_ok
             THEN base_dir' = "writable" /\ pc' = "start" /\ error' = error
             ELSE base_dir' = base_dir /\ pc' = "failed"
                  /\ error' = "PermissionError"
  /\ UNCHANGED <<Args, m, StubArrays, deg, i, j, Reservoir, new_node, targets,
                 branch, Canon, Files, grow_iters, prior, Attrs, Manager, out_dir, Writer>>

\* the script is started again with the same arguments; the files of the
\* earlier run stay in generated/<name> until they are rewritten
Rerun ==
  /\ pc = "done"
  /\ ~prior.ran
  /\ prior' = [ran |-> TRUE, stubs |-> <<edges_u, edges_v>>,
               rows |-> friendships_csv.rows]
  /\ pc' = "start"
  /\ m' = 0
  /\ est_edges' = 0 /\ edges_u' = <<>> /\ edges_v' = <<>> /\ e_ptr' = 0
  /\ deg' = <<>>
  /\ i' = 0 /\ j' = 0
  /\ reservoir_size' = 0 /\ reservoir' = <<>> /\ r_ptr' = 0 /\ node' = 0
  /\ new_node' = 0 /\ targets' = <<>> /\ branch' = "none"
  /\ pairs' = <<>> /\ unique_pairs' = <<>> /\ num_pairs' = 0
  /\ chunk_st' = 0
  /\ grow_iters' = 0
  /\ lines' = <<>> /\ flushed' = 0 /\ chunk_iters' = 0
  /\ UNCHANGED <<Args, Files, error, Dirs, Attrs, Manager>>

Next ==
  \/ Prealloc
  \/ CliqueEdge
  \/ AllocReservoir
  \/ SeedReservoir
  \/ StartGrowth
  \/ SampleTargets
  \/ Attach
  \/ ReturnStubs
  \/ CanonicalForm
  \/ ExternalSort
  \/ SortUnique
  \/ WriteUsers
  \/ OpenFriendships
  \/ WriteChunk
  \/ CloseFriendships
  \/ WriteMetadata

\* one run of generate_and_save
Spec == Init /\ [][Next]_vars

\* two runs of the script, one after the other, with the same arguments
NextTwoRuns ==
  \/ Next
  \/ Rerun

SpecTwoRuns == Init /\ [][NextTwoRuns]_vars

\* the script from main on, in any state of the output directories and
\* with I/O errors
InitMain ==
  /\ pc = "main"
  /\ n \in 0..MaxN
  /\ avg_friends \in 1..MaxAvg
  /\ chunk_size \in (-1)..MaxChunk
  /\ external_sort \in BOOLEAN
  /\ m = 0
  /\ est_edges = 0 /\ edges_u = <<>> /\ edges_v = <<>> /\ e_ptr = 0
  /\ deg = <<>>
  /\ i = 0 /\ j = 0
  /\ reservoir_size = 0 /\ reservoir = <<>> /\ r_ptr = 0 /\ node = 0
  /\ new_node = 0 /\ targets = <<>> /\ branch = "none"
  /\ pairs = <<>> /\ unique_pairs = <<>> /\ num_pairs = 0
  /\ users_csv = NoFile /\ friendships_csv = NoFile
  /\ metadata_json = NoMetadata
  /\ chunk_st = 0
  /\ error = "none"
  /\ grow_iters = 0
  /\ prior = NoRun
  /\ base_dir \in {"absent", "writable", "readonly"}
  /\ out_dir \in {"absent", "writable", "readonly"}
  /\ base_dir = "absent" => out_dir = "absent"
  /\ lines = <<>> /\ flushed = 0 /\ chunk_iters = 0
  /\ NoAttrs
  /\ NoManager

\* the I/O errors the writer can meet
IOFails ==
  \/ WriteUsersFails
  \/ OpenFriendshipsFails
  \/ WriteChunkFails
  \/ WriteMetadataFails

NextMain ==
  \/ EnsureWritable
  \/ Next
  \/ IOFails

SpecMain == InitMain /\ [][NextMain]_vars

\* the canonicalizer alone, applied to any stub arrays of bounded length
InitCanon ==
  /\ pc = "canon"
  /\ n = MaxId + 1
  /\ avg_friends = 2
  /\ chunk_size = 1
  /\ external_sort \in BOOLEAN
  /\ m = M(avg_friends)
  /\ \E len \in 0..MaxStubs :
       /\ est_edges = len
       /\ e_ptr = len
       /\ edges_u \in [1..len -> 0..MaxId]
       /\ edges_v \in [1..len -> 0..MaxId]
  /\ deg = <<>>
  /\ i = 0 /\ j = 0
  /\ reservoir_size = 0 /\ reservoir = <<>> /\ r_ptr = 0 /\ node = 0
  /\ new_node = 0 /\ targets = <<>> /\ branch = "none"
  /\ pairs = <<>> /\ unique_pairs = <<>> /\ num_pairs = 0
  /\ users_csv = NoFile /\ friendships_csv = NoFile
  /\ metadata_json = NoMetadata
  /\ chunk_st = 0
  /\ error = "none"
  /\ grow_iters = 0
  /\ prior = NoRun
  /\ base_dir = "writable" /\ out_dir = "absent"
  /\ lines = <<>> /\ flushed = 0 /\ chunk_iters = 0
  /\ NoAttrs
  /\ NoManager

NextCanon ==
  \/ CanonicalForm
  \/ ExternalSort
  \/ SortUnique

SpecCanon == InitCanon /\ [][NextCanon]_vars

(* ------------------------ attribute columns --------------------------- *)
CITIES == <<"Moscow", "SPb", "Novosibirsk", "Ekaterinburg", "Kazan">>

\* CITY_PROBS in hundredths; dividing by the sum keeps every entry positive
CITY_PROBS == <<20, 15, 10, 10, 10>>

\* rng.choice(items, p=p): any item of positive probability
Choice(items, p) == {items[k] : k \in {x \in DOMAIN items : p[x] > 0}}

\* rng.integers(18, 70)
Ages == Integers_(18, 70)

\* everything but pc, error, the attribute columns and the manager
Generator == <<Args, m, StubArrays, deg, i, j, Reservoir, new_node, targets,
               branch, Canon, Files, grow_iters, prior, Dirs, Writer>>

\* The columns are arrays of independent draws; each action below draws one
\* entry of its column, over the whole range of the draw.
\* ages = rng.integers(18, 70, size=n)
DrawAges ==
  /\ pc = "users"
  /\ \E a \in Ages : ages' = <<a>>
  /\ pc' = "ages"
  /\ UNCHANGED <<Generator, error, cities, dates, Manager>>

\* cities = rng.choice(CITIES, size=n, p=CITY_PROBS)
DrawCities ==
  /\ pc = "users"
  /\ \E c \in Choice(CITIES, CITY_PROBS) : cities' = <<c>>
  /\ pc' = "cities"
  /\ UNCHANGED <<Generator, error, ages, dates, Manager>>

\* years, months, days and dates of users_df (registration_date)
DrawDates ==
  /\ pc = "users"
  /\ \E t \in Years \X Months \X Days : dates' = <<FormatDate(t[1], t[2], t[3])>>
  /\ pc' = "registration_date"
  /\ UNCHANGED <<Generator, error, ages, cities, Manager>>

\* years, months, days and dates of a chunk (since)
ChunkDates ==
  /\ pc = "chunks"
  /\ chunk_st < num_pairs
  /\ \E t \in Years \X Months \X Days : dates' = <<FormatDate(t[1], t[2], t[3])>>
  /\ pc' = "since"
  /\ UNCHANGED <<Generator, error, ages, cities, Manager>>

\* the run of n = 2, avg_friends = 1 at the two places that draw columns:
\* before users_df is built, and at the head of the chunk loop
InitAttrs ==
  /\ pc \in {"users", "chunks"}
  /\ n = 2
  /\ avg_friends = 1
  /\ chunk_size = 1
  /\ external_sort = FALSE
  /\ m = M(avg_friends)
  /\ est_edges = EstEdges(n, m)
  /\ edges_u = <<0>> /\ edges_v = <<1>> /\ e_ptr = 1
  /\ deg = <<1, 1>>
  /\ i = InitNodes(m) /\ j = InitNodes(m)
  /\ reservoir_size = ReservoirSize(n, m)
  /\ reservoir = FillSlice(FillSlice(Empty(reservoir_size), 0, 1, 0), 1, 2, 1)
  /\ r_ptr = 2
  /\ node = InitNodes(m)
  /\ new_node = InitNodes(m) /\ targets = <<>> /\ branch = "none"
  /\ pairs = <<(<<0, 1>>)>> /\ unique_pairs = pairs /\ num_pairs = 1
  /\ users_csv = (IF pc = "chunks"
                  THEN [exists |-> TRUE, header |-> TRUE, rows |-> UsersRows(n)]
                  ELSE NoFile)
  /\ friendships_csv = (IF pc = "chunks"
                        THEN [exists |-> TRUE, header |-> TRUE, rows |-> <<>>]
                        ELSE NoFile)
  /\ metadata_json = NoMetadata
  /\ chunk_st = 0
  /\ error = "none"
  /\ grow_iters = 0
  /\ prior = NoRun
  /\ base_dir = "writable"
  /\ out_dir = (IF pc = "chunks" THEN "writable" ELSE "absent")
  /\ lines = <<>> /\ flushed = 0 /\ chunk_iters = 0
  /\ NoAttrs
  /\ NoManager

NextAttrs ==
  \/ DrawAges
  \/ DrawCities
  \/ DrawDates
  \/ ChunkDates

\* the random attribute columns of users.csv and friendships.csv
SpecAttrs == InitAttrs /\ [][NextAttrs]_vars

(* ------------------- dataset_manager: copy_to_containers --------------- *)
\* the steps of copy_to_containers, in the order of its list
Commands ==
  <<"cp users.csv postgres", "chmod users.csv", "cp friendships.csv postgres",
    "chmod friendships.csv", "mkdir neo4j import", "cp users.csv neo4j",
    "cp friendships.csv neo4j">>

\* run_cmd: in a dry run nothing is started and the call succeeds; otherwise
\* subprocess.run(check=True) returns, raises CalledProcessError on a
\* non-zero exit, or raises another error (docker is not installed)
RunCmd(dry) ==
  IF dry THEN {"ok"} ELSE {"ok", "CalledProcessError", "FileNotFoundError"}

\* if attempt < retries - 1
ShouldSleepAlways(att, ret) == TRUE
ShouldSleep(att, ret) == att < ret - 1

\* time.sleep(backoff * (2 ** attempt))
Sleep(b, att) == b * (2 ^ att)

\* the file check of copy_to_containers and its list of commands
CopyToContainers ==
  /\ pc = "copy_to_containers"
  /\ IF ~files_found
     THEN /\ copy_result' = "False"
          /\ pc' = "returned"
          /\ UNCHANGED <<commands, step>>
     ELSE /\ commands' = Commands
          /\ step' = 1
          /\ pc' = "commands"
          /\ UNCHANGED copy_result
  /\ UNCHANGED <<Generator, error, Attrs, dry_run, files_found, entry, executed,
                 retries, backoff, attempt, runs, slept, retry_result>>

\* for cmd, desc in commands: call retry_cmd(cmd) with the default retries
\* and backoff; after the last command return True
NextCommand ==
  /\ pc = "commands"
  /\ IF step > Len(commands)
     THEN /\ copy_result' = "True"
          /\ pc' = "returned"
          /\ UNCHANGED <<executed, retries, backoff, attempt, runs, slept,
                         retry_result>>
     ELSE /\ executed' = Append(executed, [cmd |-> commands[step], ok |-> "none"])
          /\ retries' = DOCKER_RETRIES
          /\ backoff' = DOCKER_BACKOFF
          /\ attempt' = 0
          /\ runs' = 0
          /\ slept' = <<>>
          /\ retry_result' = "none"
          /\ pc' = "retry_cmd"
          /\ UNCHANGED copy_result
  /\ UNCHANGED <<Generator, error, Attrs, dry_run, files_found, entry, commands,
                 step>>

\* retry_cmd: one iteration of `for attempt in range(retries)`, or the
\* return False after the loop (results are kept as "True" / "False").  attempt counts the attempts that failed.
RetryCmd ==
  /\ pc = "retry_cmd"
  /\ IF attempt >= retries
     THEN /\ retry_result' = "False"
          /\ pc' = "retry_returned"
          /\ UNCHANGED <<attempt, runs, slept, error>>
     ELSE /\ runs' = runs + 1
          /\ \E out \in RunCmd(dry_run) :
               CASE out = "ok" ->
                      /\ retry_result' = "True"
                      /\ pc' = "retry_returned"
                      /\ UNCHANGED <<attempt, slept, error>>
                 [] out = "CalledProcessError" ->
                      /\ slept' = IF ShouldSleep(attempt, retries)
                                  THEN Append(slept, Sleep(backoff, attempt))
                                  ELSE slept
                      /\ attempt' = attempt + 1
                      /\ UNCHANGED <<pc, retry_result, error>>
                 [] OTHER ->
                      /\ pc' = "raised"
                      /\ error' = out
                      /\ UNCHANGED <<attempt, slept, retry_result>>
  /\ UNCHANGED <<Generator, Attrs, dry_run, files_found, entry, commands, step,
                 executed, copy_result, retries, backoff>>

\* retry_cmd has returned: to its caller, or to the loop of
\* copy_to_containers, which returns False when the step failed
RetryReturns ==
  /\ pc = "retry_returned"
  /\ IF entry = "retry_cmd"
     THEN /\ pc' = "returned"
          /\ UNCHANGED <<step, executed, copy_result>>
     ELSE /\ executed' = [executed EXCEPT ![Len(executed)].ok = retry_result]
          /\ IF retry_result = "False"
             THEN /\ copy_result' = "False"
                  /\ pc' = "returned"
                  /\ UNCHANGED step
             ELSE /\ step' = step + 1
                  /\ pc' = "commands"
                  /\ UNCHANGED copy_result
  /\ UNCHANGED <<Generator, error, Attrs, dry_run, files_found, entry, commands,
                 retries, backoff, attempt, runs, slept, retry_result>>

\* a call of copy_to_containers, or of retry_cmd with retries and backoff
\* of the caller's choice
InitManager ==
  /\ entry \in {"copy_to_containers", "retry_cmd"}
  /\ pc = entry
  /\ dry_run \in BOOLEAN
  /\ files_found \in BOOLEAN
  /\ commands = <<>> /\ step = 0 /\ executed = <<>>
  /\ copy_result = "none"
  /\ IF entry = "retry_cmd"
     THEN retries \in 0..MaxRetries /\ backoff \in 0..MaxBackoff
     ELSE retries = 0 /\ backoff = 0
  /\ attempt = 0 /\ runs = 0 /\ slept = <<>>
  /\ retry_result = "none"
  /\ n = 0
  /\ avg_friends = 1
  /\ chunk_size = 1
  /\ external_sort = FALSE
  /\ m = 0
  /\ est_edges = 0 /\ edges_u = <<>> /\ edges_v = <<>> /\ e_ptr = 0
  /\ deg = <<>>
  /\ i = 0 /\ j = 0
  /\ reservoir_size = 0 /\ reservoir = <<>> /\ r_ptr = 0 /\ node = 0
  /\ new_node = 0 /\ targets = <<>> /\ branch = "none"
  /\ pairs = <<>> /\ unique_pairs = <<>> /\ num_pairs = 0
  /\ users_csv = NoFile /\ friendships_csv = NoFile
  /\ metadata_json = NoMetadata
  /\ chunk_st = 0
  /\ error = "none"
  /\ grow_iters = 0
  /\ prior = NoRun
  /\ base_dir = "writable" /\ out_dir = "absent"
  /\ lines = <<>> /\ flushed = 0 /\ chunk_iters = 0
  /\ NoAttrs

NextManager ==
  \/ CopyToContainers
  \/ NextCommand
  \/ RetryCmd
  \/ RetryReturns

\* AdaptiveTestingManager.copy_to_containers and retry_cmd
SpecManager == InitManager /\ [][NextManager]_vars

(* ------------------------- checked properties -------------------------- *)
\* the stubs recorded so far
Stubs == [k \in 1..Min(e_ptr, Len(edges_u)) |-> <<edges_u[k], edges_v[k]>>]

\* unique_pairs has been computed
Computed == pc \in {"users", "open", "chunks", "meta", "done"}

\* the (user_id, friend_id) columns of friendships.csv
RowPairs ==
  [k \in 1..Len(friendships_csv.rows) |->
     <<friendships_csv.rows[k].user_id, friendships_csv.rows[k].friend_id>>]

Range(f) == {f[k] : k \in DOMAIN f}

\* m as the claims define it
ClaimM == IF avg_friends \div 2 >= 1 THEN avg_friends \div 2 ELSE 1

Precedes(p, q) == p[1] < q[1] \/ (p[1] = q[1] /\ p[2] < q[2])

\* C1: no pair occurs at two positions of unique_pairs, nor in two rows of
\* friendships.csv
C1_NoDuplicateEdges ==
  /\ Computed =>
       \A a, b \in 1..Len(unique_pairs) :
         a # b => unique_pairs[a] # unique_pairs[b]
  /\ \A a, b \in 1..Len(RowPairs) : a # b => RowPairs[a] # RowPairs[b]

\* a run whose stubs collided, written out in full
C1_Witness ==
  /\ pc = "done"
  /\ Len(unique_pairs) < e_ptr
  /\ RowPairs = unique_pairs

\* C2: every canonical edge and every written row has low < high
C2_LowBelowHigh ==
  /\ (pc = "dedup" \/ Computed) =>
       \A k \in 1..Len(pairs) : pairs[k][1] < pairs[k][2]
  /\ Computed =>
       \A k \in 1..Len(unique_pairs) : unique_pairs[k][1] < unique_pairs[k][2]
  /\ \A k \in 1..Len(RowPairs) : RowPairs[k][1] < RowPairs[k][2]

\* rows were written from stubs recorded as (new_node, target), high first
C2_Witness ==
  /\ pc = "done"
  /\ Len(RowPairs) > 0
  /\ \E k \in 1..e_ptr : edges_u[k] > edges_v[k]

\* C3: unique_pairs ascends lexicographically by (low, high); the rows of
\* friendships.csv are at every moment a prefix of it, so every chunk
\* continues where the one before ended, and the closed file is all of it
C3_CanonicalOrder ==
  /\ Computed =>
       \A k \in 1..(Len(unique_pairs) - 1) :
         Precedes(unique_pairs[k], unique_pairs[k + 1])
  /\ pc \in {"chunks", "meta", "done"} =>
       /\ Len(RowPairs) <= Len(unique_pairs)
       /\ RowPairs = SubSeq(unique_pairs, 1, Len(RowPairs))
       /\ chunk_st >= 0 => Len(RowPairs) = chunk_st
  /\ pc \in {"meta", "done"} => RowPairs = unique_pairs

\* a file written in several chunks from stubs that were not in order
C3_Witness ==
  /\ pc = "done"
  /\ chunk_size >= 1
  /\ chunk_size < num_pairs
  /\ \E k \in 1..(e_ptr - 1) :
       LET lo(x) == Min(edges_u[x], edges_v[x])
           hi(x) == Max(edges_u[x], edges_v[x])
       IN Precedes(<<lo(k + 1), hi(k + 1)>>, <<lo(k), hi(k)>>)

\* C4: the output pairs are exactly the canonical forms of the stubs that
\* are no self-loops
C4_NoLossNoInvention ==
  pc = "users" =>
    Range(unique_pairs) =
      {<<Min(s[1], s[2]), Max(s[1], s[2])>> : s \in {t \in Range(Stubs) : t[1] # t[2]}}

\* stubs with a self-loop and one pair recorded in both directions, which
\* collapse to a single edge
C4_Witness ==
  /\ pc = "users"
  /\ \E k \in 1..e_ptr : edges_u[k] = edges_v[k]
  /\ \E a, b \in 1..e_ptr :
       edges_u[a] = edges_v[b] /\ edges_v[a] = edges_u[b] /\ edges_u[a] # edges_v[a]
  /\ Len(pairs) = 2
  /\ Len(unique_pairs) = 1

\* C5: both endpoints of every canonical edge and written row are node ids,
\* 0 <= low < high <= n - 1, and are user_ids of users.csv
C5_EndpointsInRange ==
  /\ \A k \in 1..Len(RowPairs) :
       \A e \in {RowPairs[k][1], RowPairs[k][2]} :
         \E u \in 1..Len(users_csv.rows) : users_csv.rows[u].user_id = e
  /\ Computed =>
       \A k \in 1..Len(unique_pairs) :
         /\ 0 <= unique_pairs[k][1]
         /\ unique_pairs[k][1] < unique_pairs[k][2]
         /\ unique_pairs[k][2] <= n - 1
  /\ \A k \in 1..Len(RowPairs) :
       /\ 0 <= RowPairs[k][1]
       /\ RowPairs[k][1] < RowPairs[k][2]
       /\ RowPairs[k][2] <= n - 1

\* a grown graph whose last node is attached to node 0
C5_Witness ==
  /\ pc = "done"
  /\ n > m + 1
  /\ \E k \in 1..Len(RowPairs) : RowPairs[k] = <<0, n - 1>>

\* C6: the targets drawn in a step with r_ptr >= m are pairwise distinct
C6_DistinctTargets ==
  (pc = "attach" /\ branch = "noreplace") =>
    \A a, b \in 1..Len(targets) : a # b => targets[a] # targets[b]

\* C7: at most m*(n-(m+1)) + m*(m+1)/2 unique edges, computed and written
C7_BoundedEdgeCount ==
  LET bound == ClaimM * (n - (ClaimM + 1)) + (ClaimM * (ClaimM + 1)) \div 2
  IN /\ Computed => num_pairs <= bound /\ Len(unique_pairs) <= bound
     /\ friendships_csv.exists => Len(friendships_csv.rows) <= bound

\* a grown graph without collisions: the bound is met
C7_Witness ==
  /\ pc = "done"
  /\ n > m + 1
  /\ Len(friendships_csv.rows) =
       ClaimM * (n - (ClaimM + 1)) + (ClaimM * (ClaimM + 1)) \div 2

\* C8: with n <= m the run ends with ValueError and has built and written
\* nothing; with n > m that error is never raised
C8_ConfigurationError ==
  /\ n <= ClaimM =>
       /\ pc \in {"start", "failed"}
       /\ pc = "failed" => error = "ValueError"
       /\ e_ptr = 0 /\ edges_u = <<>> /\ edges_v = <<>>
       /\ deg = <<>> /\ reservoir = <<>> /\ r_ptr = 0
       /\ ~users_csv.exists /\ ~friendships_csv.exists /\ ~metadata_json.exists
  /\ n > ClaimM => error # "ValueError"

\* the failed run of n = m
C8_Witness ==
  /\ pc = "failed"
  /\ error = "ValueError"
  /\ n = ClaimM
  /\ n >= 1

\* C9: with n = m + 1 no growth iteration runs and the output is the
\* complete graph on 0..m
C9_CliqueOnly ==
  n = ClaimM + 1 =>
    /\ grow_iters = 0
    /\ pc # "attach"
    /\ Computed =>
         /\ Range(unique_pairs) =
              {p \in (0..ClaimM) \X (0..ClaimM) : p[1] < p[2]}
         /\ num_pairs = (ClaimM * (ClaimM + 1)) \div 2
    /\ pc = "done" => RowPairs = unique_pairs

\* the spec's example: n = 3, avg_friends = 4 gives (0,1), (0,2), (1,2)
C9_Witness ==
  /\ pc = "done"
  /\ n = 3 /\ avg_friends = 4
  /\ RowPairs = <<(<<0, 1>>), (<<0, 2>>), (<<1, 2>>)>>

\* C10: a second run with the same arguments records the same stubs and
\* writes the same rows as the first
C10_Determinism ==
  (prior.ran /\ pc = "done") =>
    /\ <<edges_u, edges_v>> = prior.stubs
    /\ friendships_csv.rows = prior.rows

\* C11: a failed run leaves none of the three files, a finished run leaves
\* all three, complete
C11_AllOrNothing ==
  /\ pc = "failed" =>
       ~users_csv.exists /\ ~friendships_csv.exists /\ ~metadata_json.exists
  /\ pc = "done" =>
       /\ users_csv.exists /\ friendships_csv.exists
       /\ metadata_json.exists /\ metadata_json.complete
       /\ RowPairs = unique_pairs

\* C12: a run whose output directory generated/<name> is not writable ends
\* before fast_ba_prealloc has built anything
C12_ProbeBeforeConstruction ==
  out_dir = "readonly" =>
    /\ pc \in {"main", "start", "failed"}
    /\ edges_u = <<>> /\ e_ptr = 0

\* C13: for chunk_size >= 1 the chunks are the slices [0, c), [c, 2c), ...
\* of unique_pairs, each written once and in order, all but the last of
\* exactly chunk_size rows; the closed file holds unique_pairs itself,
\* whatever the chunk size
C13_ChunksCoverOnce ==
  chunk_size >= 1 =>
    /\ pc = "chunks" =>
         /\ chunk_st \in 0..num_pairs
         /\ chunk_st % chunk_size = 0 \/ chunk_st = num_pairs
         /\ RowPairs = SubSeq(unique_pairs, 1, chunk_st)
         /\ chunk_st > 0 =>
              /\ Len(lines) \in 1..chunk_size
              /\ (chunk_st - Len(lines)) % chunk_size = 0
              /\ chunk_st < num_pairs => Len(lines) = chunk_size
              /\ [x \in 1..Len(lines) |-> <<lines[x].user_id, lines[x].friend_id>>]
                   = SubSeq(unique_pairs, chunk_st - Len(lines) + 1, chunk_st)
    /\ pc \in {"meta", "done"} =>
         /\ RowPairs = unique_pairs
         /\ Len(friendships_csv.rows) = num_pairs

\* a file of three or more rows whose last chunk is short
C13_Witness ==
  /\ pc = "done"
  /\ chunk_size = 2
  /\ num_pairs >= 3
  /\ Len(lines) = 1

\* C14: metadata.json is written once, after users.csv and the whole of
\* friendships.csv, and holds n, the number of rows written and
\* 2 * rows / n
C14_MetadataOnceAtEnd ==
  /\ metadata_json.writes <= 1
  /\ metadata_json.exists =>
       /\ pc \in {"done", "failed"}
       /\ metadata_json.writes = 1
       /\ RowPairs = unique_pairs
       /\ flushed = Len(friendships_csv.rows)
  /\ pc = "done" => metadata_json.complete
  /\ metadata_json.complete =>
       /\ pc = "done"
       /\ metadata_json.num_users = n
       /\ metadata_json.num_friendships = Len(friendships_csv.rows)
       /\ metadata_json.avg_degree[2] # 0
       /\ metadata_json.avg_degree[1] * n =
            2 * Len(friendships_csv.rows) * metadata_json.avg_degree[2]
  /\ friendships_csv.exists => users_csv.exists /\ Len(users_csv.rows) = n

\* the metadata of a graph written row by row
C14_Witness ==
  /\ pc = "done"
  /\ metadata_json.exists
  /\ chunk_size = 1
  /\ metadata_json.num_friendships >= 4

\* C15: when the writer is about to start a chunk, every row written so far
\* has left the buffer of out_f for the file
C15_FlushedBeforeNextChunk ==
  (pc = "chunks" /\ chunk_st < num_pairs) =>
    flushed = Len(friendships_csv.rows)

\* C16: the rows built for a chunk (and the dates drawn for them) never
\* number more than chunk_size
C16_BuffersWithinChunkSize ==
  lines # <<>> => Len(lines) <= chunk_size

\* C17: users.csv has n rows, user_id 0..n-1 in ascending order, each with
\* name User_<id>
C17_DenseUserIds ==
  (users_csv.exists /\ pc # "failed") =>
    /\ Len(users_csv.rows) = n
    /\ \A k \in 1..Len(users_csv.rows) :
         /\ users_csv.rows[k].user_id = k - 1
         /\ users_csv.rows[k].name = <<"User_", Digits[k]>>

\* the node table of a graph that grew
C17_Witness ==
  /\ pc = "done"
  /\ n >= 3
  /\ grow_iters >= 1
  /\ users_csv.rows[n].user_id = n - 1

\* C18: a run with external_sort=True does not end in the branch that is
\* not implemented
C18_ExternalSortCompletes ==
  external_sort => (error # "NotImplementedError" /\ pc # "failed")

\* C19: between growth steps every node occurs in reservoir[0..r_ptr) as
\* often as deg says, deg counts the stub endpoints, and r_ptr = 2 * e_ptr
C19_ReservoirMatchesDegrees ==
  pc = "grow" =>
    /\ r_ptr = 2 * e_ptr
    /\ \A x \in 0..(n - 1) :
         /\ Cardinality({k \in 1..r_ptr : reservoir[k] = x}) = deg[x + 1]
         /\ deg[x + 1] = Cardinality({k \in 1..e_ptr : edges_u[k] = x})
                         + Cardinality({k \in 1..e_ptr : edges_v[k] = x})

\* after a growth step that drew the same target twice
C19_Witness ==
  /\ pc = "grow"
  /\ grow_iters >= 1
  /\ Len(targets) = 2
  /\ targets[1] = targets[2]

\* C20: growth step number g records m stubs with source m + g, targets
\* that are older nodes of degree >= 1; no stub is a self-loop and the
\* mask of the canonicalizer removes nothing
C20_GrowthStubs ==
  LET ie == (ClaimM * (ClaimM + 1)) \div 2
  IN /\ pc = "attach" =>
          /\ new_node \in (ClaimM + 1)..(n - 1)
          /\ Len(targets) = ClaimM
          /\ \A x \in 1..Len(targets) :
               /\ 0 <= targets[x] /\ targets[x] < new_node
               /\ deg[targets[x] + 1] >= 1
     /\ pc \in {"grow", "attach"} =>
          /\ new_node = ClaimM + 1 + grow_iters
          /\ e_ptr = ie + ClaimM * grow_iters
     /\ pc \notin {"main", "start", "failed", "clique"} =>
          /\ \A k \in 1..e_ptr : edges_u[k] # edges_v[k]
          /\ \A k \in (ie + 1)..e_ptr :
               /\ edges_u[k] = ClaimM + 1 + ((k - ie - 1) \div ClaimM)
               /\ 0 <= edges_v[k] /\ edges_v[k] < edges_u[k]
     /\ (pc = "dedup" \/ Computed) => Len(pairs) = e_ptr

\* a run of two growth steps or more, canonicalized
C20_Witness ==
  /\ pc = "done"
  /\ grow_iters >= 2
  /\ Len(pairs) = e_ptr

\* the complete graph on 0..mm as a set of pairs
CliquePairs(mm) == {p \in (0..mm) \X (0..mm) : p[1] < p[2]}

\* how often x occurs in reservoir[0..r_ptr)
Occurrences(x) == Cardinality({k \in 1..r_ptr : reservoir[k] = x})

\* C21: before the first growth step the stubs are the pairs (i, j) with
\* 0 <= i < j <= m, each once; deg is m on 0..m and 0 elsewhere; the
\* reservoir holds each of 0..m exactly m times
C21_CliqueSeeded ==
  (pc \in {"grow", "attach"} /\ grow_iters = 0) =>
    /\ Range(Stubs) = CliquePairs(ClaimM)
    /\ e_ptr = Cardinality(CliquePairs(ClaimM))
    /\ \A x \in 0..(n - 1) :
         /\ deg[x + 1] = (IF x <= ClaimM THEN ClaimM ELSE 0)
         /\ Occurrences(x) = (IF x <= ClaimM THEN ClaimM ELSE 0)
    /\ r_ptr = ClaimM * (ClaimM + 1)

\* the seeded clique on three nodes of a graph that has a fourth to grow by
C21_Witness ==
  /\ pc = "grow"
  /\ grow_iters = 0
  /\ m = 2
  /\ n > m + 1

\* C22: the stub arrays keep the length m*(n-(m+1)/2) they were allocated
\* with, every clique write and every growth write lies inside them, and at
\* return e_ptr equals that length
C22_StubCapacityExact ==
  LET capacity == (ClaimM * (2 * n - (ClaimM + 1))) \div 2
  IN n > ClaimM =>
       /\ pc \notin {"main", "start", "failed"} => est_edges = capacity
       /\ pc \in {"clique", "seed", "grow", "attach"} =>
            Len(edges_u) = capacity /\ Len(edges_v) = capacity
       /\ (pc = "clique" /\ i < InitNodes(m)) => e_ptr < capacity
       /\ pc = "attach" => e_ptr + m <= capacity
       /\ (pc = "grow" /\ new_node >= n) => e_ptr = capacity
       /\ (pc = "canon" \/ pc = "dedup" \/ Computed) =>
            e_ptr = capacity /\ Len(edges_u) = capacity /\ Len(edges_v) = capacity

\* the last growth write of a run with m = 2, which fills the arrays
C22_Witness ==
  /\ pc = "attach"
  /\ m = 2
  /\ e_ptr + m = est_edges

\* C23: the reservoir is as long as reservoir_size says, r_ptr never passes
\* it, every write of the seeding and of a growth step (after the resize
\* that precedes it, if any) lies inside it, and the cells below r_ptr are
\* node ids
C23_ReservoirWritesInside ==
  /\ Len(reservoir) = reservoir_size
  /\ r_ptr <= reservoir_size
  /\ (pc = "seed" /\ node < InitNodes(m)) =>
       r_ptr + deg[node + 1] <= reservoir_size
  /\ pc = "attach" =>
       r_ptr + 2 * m <= (IF r_ptr + 2 * m > reservoir_size
                         THEN reservoir_size * 2 + m * ResizePad
                         ELSE reservoir_size)
  /\ \A k \in 1..r_ptr : reservoir[k] \in 0..(n - 1)

\* the reservoir after the last of several growth steps
C23_Witness ==
  /\ pc = "grow"
  /\ new_node = n
  /\ grow_iters >= 2
  /\ r_ptr = 2 * est_edges

\* C24: a growth step starts with r_ptr >= m*(m+1) >= m, so it draws without
\* replacement, and its 2m entries fit the reservoir of
\* 2*est_edges + n*m + 100 cells, which is never resized
C24_NoFallbackNoResize ==
  /\ branch # "replace"
  /\ pc \in {"grow", "attach"} =>
       /\ r_ptr >= ClaimM * (ClaimM + 1)
       /\ r_ptr >= m
  /\ pc = "attach" =>
       /\ (branch = "replace") = (r_ptr < m)
       /\ r_ptr + 2 * m <= reservoir_size
  /\ pc \in {"seed", "grow", "attach"} =>
       reservoir_size = 2 * est_edges + n * ClaimM + ReservoirSlack

\* a later growth step, drawn without replacement
C24_Witness ==
  /\ pc = "attach"
  /\ branch = "noreplace"
  /\ grow_iters >= 1
  /\ r_ptr + 2 * m < reservoir_size

\* C25: for every chunk size the loop advances chunk_st by at least one row
\* per iteration and never past num_pairs, so it ends after
\* ceil(num_pairs / chunk_size) iterations, which are num_pairs at most
C25_ChunkLoopTerminates ==
  pc = "chunks" =>
    /\ chunk_st \in 0..num_pairs
    /\ chunk_iters <= chunk_st
    /\ chunk_iters <= num_pairs
    /\ chunk_size >= 1 => (chunk_iters - 1) * chunk_size < chunk_st \/ chunk_iters = 0

\* the nodes joined to node 0 by the edges ps
RECURSIVE Component(_, _)
Component(S, ps) ==
  LET T == S \cup {x \in 0..(n - 1) :
                     \E k \in 1..Len(ps) :
                       \/ ps[k][1] = x /\ ps[k][2] \in S
                       \/ ps[k][2] = x /\ ps[k][1] \in S}
  IN IF T = S THEN S ELSE Component(T, ps)

\* C26: the output edges connect all n nodes: every node is an endpoint,
\* every node v > m has between 1 and m edges to smaller nodes, and every
\* node is joined to node 0
C26_Connected ==
  Computed =>
    /\ \A x \in 0..(n - 1) :
         \E k \in 1..Len(unique_pairs) :
           unique_pairs[k][1] = x \/ unique_pairs[k][2] = x
    /\ \A v \in (ClaimM + 1)..(n - 1) :
         Cardinality({k \in 1..Len(unique_pairs) : unique_pairs[k][2] = v})
           \in 1..ClaimM
    /\ Component({0}, unique_pairs) = 0..(n - 1)
    /\ pc = "done" => Component({0}, RowPairs) = 0..(n - 1)

\* a node that drew the same target twice and hangs by a single edge
C26_Witness ==
  /\ pc = "done"
  /\ m = 2
  /\ n = 4
  /\ Cardinality({k \in 1..Len(unique_pairs) : unique_pairs[k][2] = 3}) = 1

\* C27: two stubs collapse only if they were recorded in the same growth
\* step; the clique edges all survive, at least m*(m+1)/2 + (n-m-1) edges
\* come out, and the array handed to the dedup is never empty
C27_CollapseWithinStep ==
  LET ie == (ClaimM * (ClaimM + 1)) \div 2
      canon(k) == <<Min(edges_u[k], edges_v[k]), Max(edges_u[k], edges_v[k])>>
  IN /\ (pc = "dedup" \/ Computed) => Len(pairs) >= 1
     /\ Computed =>
          /\ CliquePairs(ClaimM) \subseteq Range(unique_pairs)
          /\ num_pairs >= ie + (n - ClaimM - 1)
          /\ num_pairs >= 1
          /\ \A a, b \in 1..e_ptr :
               (a < b /\ canon(a) = canon(b)) =>
                 a > ie /\ edges_u[a] = edges_u[b]

\* a run in which every growth step collapsed to one edge
C27_Witness ==
  /\ pc = "done"
  /\ n = 4 /\ avg_friends = 4
  /\ e_ptr = 5
  /\ num_pairs = 4

\* C29: the step that draws the targets changes neither the reservoir nor
\* r_ptr, deg, the stubs or e_ptr
C29_DrawIsReadOnly ==
  [][(pc = "grow" /\ pc' = "attach") =>
       /\ reservoir' = reservoir
       /\ reservoir_size' = reservoir_size
       /\ r_ptr' = r_ptr
       /\ deg' = deg
       /\ edges_u' = edges_u
       /\ edges_v' = edges_v
       /\ e_ptr' = e_ptr]_vars

\* targets drawn for the second node the graph grows by
C29_Witness ==
  /\ pc = "attach"
  /\ grow_iters = 1
  /\ Len(targets) = 1

\* the number a digit character stands for; 10 for any other character
DigitValue(c) ==
  IF \E d \in 0..9 : Digits[d + 1] = c
  THEN CHOOSE d \in 0..9 : Digits[d + 1] = c
  ELSE 10

\* the two-digit field of sq that starts at position at
Field(sq, at) == 10 * DigitValue(sq[at]) + DigitValue(sq[at + 1])

\* C28: every date is 202Y-MM-DD with Y in 0..3, MM in 01..12 and DD in
\* 01..27; every age is in 18..69; every city is one of the five
C28_AttributeRanges ==
  /\ \A k \in DOMAIN dates :
       LET sq == dates[k]
       IN /\ Len(sq) = 10
          /\ SubSeq(sq, 1, 3) = <<"2", "0", "2">>
          /\ DigitValue(sq[4]) \in 0..3
          /\ sq[5] = "-" /\ sq[8] = "-"
          /\ \A x \in {6, 7, 9, 10} : DigitValue(sq[x]) \in 0..9
          /\ Field(sq, 6) \in 1..12
          /\ Field(sq, 9) \in 1..27
  /\ \A k \in DOMAIN ages : ages[k] \in 18..69
  /\ \A k \in DOMAIN cities :
       cities[k] \in {"Moscow", "SPb", "Novosibirsk", "Ekaterinburg", "Kazan"}

\* the latest date a user can register on
C28_Witness ==
  /\ pc = "registration_date"
  /\ dates = <<(<<"2", "0", "2", "3", "-", "1", "2", "-", "2", "7">>)>>

\* C30: retry_cmd runs the command at most `retries` times, returns True at
\* the first run that succeeds and False only after `retries` failed runs,
\* and has slept backoff * 2^a after failed attempt a, except after the last
\* one; copy_to_containers runs its steps in the order of its list, each
\* after the one before succeeded, and returns False at the first that fails
C30_RetryAndCopy ==
  /\ runs <= retries
  /\ runs \in {attempt, attempt + 1}
  /\ attempt <= retries
  /\ retry_result = "True" => (runs = attempt + 1 /\ pc # "retry_cmd")
  /\ retry_result = "False" => (runs = retries /\ attempt = retries /\ pc # "retry_cmd")
  /\ (pc = "retry_returned" /\ attempt = retries) => retry_result = "False"
  /\ (pc = "retry_returned" /\ attempt < retries) => retry_result = "True"
  /\ slept = [a \in 1..Min(attempt, retries - 1) |-> backoff * (2 ^ (a - 1))]
  /\ Len(executed) <= Len(Commands)
  /\ \A x \in 1..Len(executed) :
       /\ executed[x].cmd = Commands[x]
       /\ x < Len(executed) => executed[x].ok = "True"
  /\ pc = "commands" => step = Len(executed) + 1
  /\ copy_result = "True" =>
       /\ Len(executed) = Len(Commands)
       /\ \A x \in 1..Len(executed) : executed[x].ok = "True"
  /\ copy_result = "False" =>
       \/ ~files_found /\ executed = <<>>
       \/ /\ executed # <<>>
          /\ executed[Len(executed)].ok = "False"
          /\ retry_result = "False"
          /\ pc = "returned"

\* the third step failed four times, after sleeps of 2, 4 and 8
C30_Witness ==
  /\ pc = "returned"
  /\ copy_result = "False"
  /\ Len(executed) = 3
  /\ runs = 4
  /\ slept = <<2, 4, 8>>
====
